---------------------------- MODULE Spec2Model ----------------------------
(***************************************************************************)
(* Fuel-stop optimizer of route_planner (optimizer.py, fuel_service.py).   *)
(*                                                                         *)
(* Numbers.  Python floats are modelled as exact rationals <<num, den>>    *)
(* in lowest terms with den > 0; NaN (the mean of an empty column) is      *)
(* <<0, 0>>.  round(x, n) is Python's round-half-even to n decimals.       *)
(* A tie is decided on the exact value, where a float may sit just off it. *)
(*                                                                         *)
(* Geometry.  Every coordinate of the model lies on one meridian: a       *)
(* coordinate is <<lat, lon>> with lon = 0 and lat given as arc length in  *)
(* miles along the meridian (3958.8 * radians(latitude)).  For two such    *)
(* points the haversine formula reduces to |lat2 - lat1|, so distances and *)
(* the linear interpolation of get_point_at_distance are exact.            *)
(***************************************************************************)
EXTENDS Integers, Sequences, FiniteSets, TLC

VARIABLES
    pc,                    \* position of the call being modelled
    route_coords,          \* argument: polyline, sequence of <<lat, lon>>
    total_distance_miles,  \* argument: route length reported by the router
    fuel_df,               \* argument: station catalog (sequence of rows)
    geocoded,              \* content of data/fuel_geocoded.json
    fuel_df_geo,           \* local: catalog with lat/lon columns
    waypoints_to_check,    \* local: waypoint distances
    next_wp,               \* local: index of the next waypoint of the for loop
    fuel_stops,            \* local: stops recorded so far
    lookups,               \* history: per processed waypoint, the queries made
    result,                \* returned dictionary (NoResult until returned)
    target_miles,          \* argument of get_point_at_distance (sampler run)
    point,                 \* value returned by get_point_at_distance
    query_lat,             \* argument of find_nearest_cheap_stops (locator run)
    query_radius,          \* argument of find_nearest_cheap_stops
    query_top_n,           \* argument of find_nearest_cheap_stops
    query_result,          \* value returned by find_nearest_cheap_stops
    frames,                \* heap of DataFrame objects, by object id
    catalog_ref,           \* object held by load_fuel_data's lru_cache (0: none)
    calls,                 \* planning calls in progress, one record each
    api_key,               \* settings.ORS_API_KEY
    cache,                 \* django cache: key -> stored value
    request,               \* request.data of the last POST
    response,              \* Response the last POST returned
    max_points,            \* argument of sample_coords
    sampled                \* value returned by sample_coords

catalog_vars == <<frames, catalog_ref, calls>>

view_vars == <<api_key, cache, request, response>>

thinning_vars == <<max_points, sampled>>

\* What a single call of the planner, the sampler or the locator works on.
call_vars == <<total_distance_miles, fuel_df, geocoded, fuel_df_geo,
               waypoints_to_check, next_wp, fuel_stops, lookups, result,
               target_miles, point, query_lat, query_radius, query_top_n,
               query_result>>

vars == <<pc, route_coords, call_vars, catalog_vars, view_vars, thinning_vars>>

---------------------------------------------------------------------------
(* Exact rational arithmetic standing for float arithmetic.                *)

NaN == <<0, 0>>

Abs(n) == IF n < 0 THEN -n ELSE n

RECURSIVE GCD(_, _)
GCD(a, b) == IF b = 0 THEN a ELSE GCD(b, a % b)

Q(n, d) ==
    IF d = 0 THEN NaN
    ELSE LET s == IF d < 0 THEN -1 ELSE 1
             g == GCD(Abs(n), Abs(d))
         IN  <<(s * n) \div g, (s * d) \div g>>

I(n) == <<n, 1>>

IsNaN(a) == a[2] = 0

QAdd(a, b) ==
    IF IsNaN(a) \/ IsNaN(b) THEN NaN
    ELSE LET g == GCD(a[2], b[2])
         IN  Q(a[1] * (b[2] \div g) + b[1] * (a[2] \div g), (a[2] \div g) * b[2])

QNeg(a) == <<-a[1], a[2]>>

QSub(a, b) == QAdd(a, QNeg(b))

QMul(a, b) ==
    IF IsNaN(a) \/ IsNaN(b) THEN NaN
    ELSE LET g1 == GCD(Abs(a[1]), b[2])
             g2 == GCD(Abs(b[1]), a[2])
         IN  Q((a[1] \div g1) * (b[1] \div g2), (a[2] \div g2) * (b[2] \div g1))

\* a / b; the code divides only by values it knows to be non-zero.
QDiv(a, b) ==
    IF IsNaN(a) \/ IsNaN(b) \/ b[1] = 0 THEN NaN
    ELSE QMul(a, Q(b[2], b[1]))

\* Comparisons with NaN are false, as for floats.
QLess(a, b) == ~IsNaN(a) /\ ~IsNaN(b) /\ a[1] * b[2] < b[1] * a[2]

QLeq(a, b) == ~IsNaN(a) /\ ~IsNaN(b) /\ a[1] * b[2] <= b[1] * a[2]

QAbs(a) == <<Abs(a[1]), a[2]>>

Pow10(n) == IF n = 0 THEN 1 ELSE IF n = 1 THEN 10 ELSE IF n = 2 THEN 100 ELSE 1000

\* Python round(x, ndigits): nearest multiple of 10^-ndigits, ties to even.
round(x, ndigits) ==
    IF IsNaN(x) THEN NaN
    ELSE LET p    == Pow10(ndigits)
             ip   == x[1] \div x[2]
             rem  == x[1] % x[2]
             k    == (rem * p) \div x[2]
             r2   == (rem * p) % x[2]
             down == ip * p + k
             up   == IF 2 * r2 > x[2] THEN 1
                     ELSE IF 2 * r2 < x[2] THEN 0
                     ELSE down % 2
         IN  Q(down + up, p)

\* np.mean / Series.mean of a sequence of numbers; NaN for an empty one.
RECURSIVE QSum(_)
QSum(s) == IF s = <<>> THEN I(0) ELSE QAdd(s[1], QSum(Tail(s)))

mean(s) == IF s = <<>> THEN NaN ELSE QDiv(QSum(s), I(Len(s)))

---------------------------------------------------------------------------
(* optimizer.py: module constants.                                         *)

MAX_RANGE_MILES == 500

MPG == 10

REFUEL_INTERVAL_MILES == 400

\* Coordinate on the model's meridian at arc length m (whole miles).
P(m) == <<I(m), I(0)>>

\* (39.5, -98.35) taken onto the meridian: 39.5 degrees is 2729 miles of arc.
DEFAULT_CENTROID == P(2729)

\* The table of state centroids, cut to the states the model's rows use
\* (31.05 and 38.53 degrees of latitude as miles of arc).
STATE_CENTROIDS == [s \in {"TX", "KS"} |-> IF s = "TX" THEN P(2146) ELSE P(2662)]

---------------------------------------------------------------------------
(* optimizer.py: haversine_miles and get_point_at_distance.                *)

\* Great-circle distance; on one meridian (lon1 = lon2) the haversine
\* formula R * 2 * arcsin(sqrt(sin(dlat/2)^2)) is the arc |lat2 - lat1|.
haversine_miles(lat1, lon1, lat2, lon2) == QAbs(QSub(lat2, lat1))

\* coords[-1] of an empty list raises IndexError.
IndexError == <<>>

\* The walk with a plausible slip: the fall-through returns the first point
\* of the route, not the last.
RECURSIVE walk_first(_, _, _, _)
walk_first(coords, target, i, accumulated) ==
    IF i > Len(coords)
    THEN IF coords = <<>> THEN IndexError ELSE coords[1]
    ELSE LET lat1 == coords[i - 1][1]
             lon1 == coords[i - 1][2]
             lat2 == coords[i][1]
             lon2 == coords[i][2]
             segment_dist == haversine_miles(lat1, lon1, lat2, lon2)
         IN  IF QLeq(target, QAdd(accumulated, segment_dist))
             THEN LET remaining == QSub(target, accumulated)
                      fraction  == IF QLess(I(0), segment_dist)
                                   THEN QDiv(remaining, segment_dist)
                                   ELSE I(0)
                  IN  <<QAdd(lat1, QMul(fraction, QSub(lat2, lat1))),
                        QAdd(lon1, QMul(fraction, QSub(lon2, lon1)))>>
             ELSE walk_first(coords, target, i + 1, QAdd(accumulated, segment_dist))

\* The for loop from index i on (i is the 1-based index of the segment's end
\* point), with `accumulated` miles walked so far, and the return after it.
RECURSIVE walk(_, _, _, _)
walk(coords, target, i, accumulated) ==
    IF i > Len(coords)
    THEN IF coords = <<>> THEN IndexError ELSE coords[Len(coords)]
    ELSE LET lat1 == coords[i - 1][1]
             lon1 == coords[i - 1][2]
             lat2 == coords[i][1]
             lon2 == coords[i][2]
             segment_dist == haversine_miles(lat1, lon1, lat2, lon2)
         IN  IF QLeq(target, QAdd(accumulated, segment_dist))
             THEN LET remaining == QSub(target, accumulated)
                      fraction  == IF QLess(I(0), segment_dist)
                                   THEN QDiv(remaining, segment_dist)
                                   ELSE I(0)
                  IN  <<QAdd(lat1, QMul(fraction, QSub(lat2, lat1))),
                        QAdd(lon1, QMul(fraction, QSub(lon2, lon1)))>>
             ELSE walk(coords, target, i + 1, QAdd(accumulated, segment_dist))

get_point_at_distance(coords, target) == walk(coords, target, 2, I(0))

---------------------------------------------------------------------------
(* The station data the model draws from.                                  *)

MaxStations == 4

Row(id, city, state, price) ==
    [OPIS_Truckstop_ID |-> id, City |-> city, State |-> state,
     Retail_Price |-> price]

\* Rows of data/fuel_prices.csv (name and address columns are carried
\* through unread by the code and are left out).
Rows ==
    { Row(1, "A", "TX", Q(32504, 10000)),
      Row(2, "B", "KS", Q(31, 10)),
      Row(3, "C", "TX", Q(35, 10)),
      Row(4, "D", "TX", I(3)),
      Row(5, "E", "TX", Q(29, 10)),
      Row(6, "C", "TX", I(3)),
      Row(7, "F", "ZZ", Q(29996, 10000)) }

\* data/fuel_geocoded.json after a prewarm run that could not resolve F.
GeocodedFile ==
    [k \in {<<"A", "TX">>, <<"B", "KS">>, <<"C", "TX">>, <<"D", "TX">>,
            <<"E", "TX">>} |->
        CASE k[1] = "A" -> P(2300)
          [] k[1] = "B" -> P(2476)
          [] k[1] = "C" -> P(2790)
          [] k[1] = "D" -> P(2840)
          [] OTHER      -> P(3350)]

\* load_geocoded_dict() when the file is missing: {}.
NoGeocodedFile == [k \in {} |-> P(0)]

---------------------------------------------------------------------------
(* fuel_service.py: load_fuel_data, find_nearest_cheap_stops.              *)

\* What load_fuel_data returns: one row per OPIS id, ascending by price
\* (equal prices in any order: the single-column sort is not stable).
IsLoaded(df) ==
    /\ \A i, j \in 1..Len(df) :
          i # j => df[i].OPIS_Truckstop_ID # df[j].OPIS_Truckstop_ID
    /\ \A i, j \in 1..Len(df) :
          i < j => QLeq(df[i].Retail_Price, df[j].Retail_Price)

Catalogs ==
    UNION { {df \in [1..n -> Rows] : IsLoaded(df)} : n \in 0..MaxStations }

Min(a, b) == IF a < b THEN a ELSE b

Max(a, b) == IF a < b THEN b ELSE a

\* DataFrame.head(n).
head(df, n) ==
    IF n >= 0 THEN SubSeq(df, 1, Min(n, Len(df)))
    ELSE SubSeq(df, 1, Max(0, Len(df) + n))

\* A plausible slip: the sort keys swapped (distance first, then price).
RowLeqByDistance(a, b) ==
    \/ QLess(a.distance_from_point, b.distance_from_point)
    \/ /\ a.distance_from_point = b.distance_from_point
       /\ QLeq(a.Retail_Price, b.Retail_Price)

\* Row order of sort_values(['Retail Price', 'distance_from_point']).
RowLeq(a, b) ==
    \/ QLess(a.Retail_Price, b.Retail_Price)
    \/ /\ a.Retail_Price = b.Retail_Price
       /\ QLeq(a.distance_from_point, b.distance_from_point)

\* The multi-column sort is a stable lexsort: rows equal in both keys keep
\* their order.
RECURSIVE sort_values(_)
sort_values(df) ==
    IF df = <<>> THEN <<>>
    ELSE LET n      == Len(df)
             sorted == sort_values(SubSeq(df, 1, n - 1))
             k      == Cardinality({i \in 1..(n - 1) : RowLeq(sorted[i], df[n])})
         IN  SubSeq(sorted, 1, k) \o <<df[n]>> \o SubSeq(sorted, k + 1, n - 1)

WithinRadius(row, radius) == QLeq(row.distance_from_point, radius)

find_nearest_cheap_stops(lat, lon, df, radius, n) ==
    LET distances == [i \in 1..Len(df) |->
                         haversine_miles(lat, lon, df[i].lat, df[i].lon)]
        copy      == [i \in 1..Len(df) |->
                         [distance_from_point |-> distances[i]] @@ df[i]]
        nearby    == SelectSeq(copy, LAMBDA row : WithinRadius(row, radius))
    IN  IF nearby = <<>> THEN <<>>
        ELSE head(sort_values(nearby), n)

---------------------------------------------------------------------------
(* optimizer.py: get_fuel_df_with_coords.                                  *)

get_fuel_df_with_coords(df, geo) ==
    LET coords(row) ==
            IF <<row.City, row.State>> \in DOMAIN geo
            THEN geo[<<row.City, row.State>>]
            ELSE IF row.State \in DOMAIN STATE_CENTROIDS
                 THEN STATE_CENTROIDS[row.State]
                 ELSE DEFAULT_CENTROID
    IN  [i \in 1..Len(df) |->
            [lat |-> coords(df[i])[1], lon |-> coords(df[i])[2]] @@ df[i]]

---------------------------------------------------------------------------
(* optimizer.py: optimize_fuel_stops, waypoint selection.                  *)

\* The while loop with a plausible slip: `miles <= total_distance_miles`.
RECURSIVE refuel_points_inclusive(_, _)
refuel_points_inclusive(miles, total) ==
    IF QLeq(miles, total)
    THEN <<miles>> \o refuel_points_inclusive(QAdd(miles, I(REFUEL_INTERVAL_MILES)), total)
    ELSE <<>>

\* The while loop: `miles` is appended while it is below the total.
RECURSIVE refuel_points(_, _)
refuel_points(miles, total) ==
    IF QLess(miles, total)
    THEN <<miles>> \o refuel_points(QAdd(miles, I(REFUEL_INTERVAL_MILES)), total)
    ELSE <<>>

select_waypoints(total) ==
    IF QLeq(total, I(MAX_RANGE_MILES))
    THEN <<QMul(total, Q(1, 2))>>
    ELSE refuel_points(I(REFUEL_INTERVAL_MILES), total)

---------------------------------------------------------------------------
(* optimizer.py: optimize_fuel_stops, one pass of the waypoint loop.       *)

\* The two-tier search: radius 75, and radius 150 when that finds nothing.
\* `radii` lists the calls made to find_nearest_cheap_stops.
search_nearby(pt, df_geo) ==
    LET first == find_nearest_cheap_stops(pt[1], pt[2], df_geo, I(75), 3)
    IN  IF first = <<>>
        THEN [radii  |-> <<75, 150>>,
              nearby |-> find_nearest_cheap_stops(pt[1], pt[2], df_geo, I(150), 3)]
        ELSE [radii |-> <<75>>, nearby |-> first]

alternative(s) ==
    [city |-> s.City, state |-> s.State, price |-> round(s.Retail_Price, 3),
     lat |-> s.lat, lon |-> s.lon]

\* The stop with a plausible slip: miles_from_start taken from current_miles
\* (the counter the function initialises to 0 and never advances).
fuel_stop_current_miles(nearby, waypoint_miles) ==
    LET best_stop == nearby[1]
    IN  [opis_id |-> best_stop.OPIS_Truckstop_ID,
         city |-> best_stop.City,
         state |-> best_stop.State,
         lat |-> best_stop.lat,
         lon |-> best_stop.lon,
         retail_price_per_gallon |-> round(best_stop.Retail_Price, 3),
         miles_from_start |-> round(I(0), 1),
         alternatives |-> [i \in 1..(Len(nearby) - 1) |-> alternative(nearby[i + 1])]]

\* The stop with a plausible slip: every candidate listed as an alternative
\* (nearby_stops instead of nearby_stops[1:]).
fuel_stop_all_alternatives(nearby, waypoint_miles) ==
    LET best_stop == nearby[1]
    IN  [opis_id |-> best_stop.OPIS_Truckstop_ID,
         city |-> best_stop.City,
         state |-> best_stop.State,
         lat |-> best_stop.lat,
         lon |-> best_stop.lon,
         retail_price_per_gallon |-> round(best_stop.Retail_Price, 3),
         miles_from_start |-> round(waypoint_miles, 1),
         alternatives |-> [i \in 1..Len(nearby) |-> alternative(nearby[i])]]

\* The dictionary appended to fuel_stops for a non-empty nearby_stops.
fuel_stop(nearby, waypoint_miles) ==
    LET best_stop == nearby[1]
    IN  [opis_id |-> best_stop.OPIS_Truckstop_ID,
         city |-> best_stop.City,
         state |-> best_stop.State,
         lat |-> best_stop.lat,
         lon |-> best_stop.lon,
         retail_price_per_gallon |-> round(best_stop.Retail_Price, 3),
         miles_from_start |-> round(waypoint_miles, 1),
         alternatives |-> [i \in 1..(Len(nearby) - 1) |-> alternative(nearby[i + 1])]]

---------------------------------------------------------------------------
(* optimizer.py: optimize_fuel_stops, totals and segments.                 *)

PricesOf(stops) == [i \in 1..Len(stops) |-> stops[i].retail_price_per_gallon]

\* A plausible slip: the dataset average used whether or not stops exist.
average_price_dataset(stops, df_geo) ==
    mean([i \in 1..Len(df_geo) |-> df_geo[i].Retail_Price])

average_price(stops, df_geo) ==
    IF stops # <<>>
    THEN mean(PricesOf(stops))
    ELSE mean([i \in 1..Len(df_geo) |-> df_geo[i].Retail_Price])

\* The segment appended for `stop` in the loop over fuel_stops.
segment(stop, prev_miles) ==
    LET segment_miles == QSub(stop.miles_from_start, prev_miles)
        gallons       == QDiv(segment_miles, I(MPG))
        cost          == QMul(gallons, stop.retail_price_per_gallon)
    IN  [from_miles |-> prev_miles,
         to_miles |-> stop.miles_from_start,
         segment_miles |-> round(segment_miles, 1),
         gallons_needed |-> round(gallons, 2),
         cost_usd |-> round(cost, 2)]

\* The segment from the final stop to the destination.
last_segment(stops, prev_miles, total) ==
    LET last_segment_miles == QSub(total, prev_miles)
        last_gallons       == QDiv(last_segment_miles, I(MPG))
        last_cost          == QMul(last_gallons,
                                   stops[Len(stops)].retail_price_per_gallon)
    IN  [from_miles |-> prev_miles,
         to_miles |-> round(total, 1),
         segment_miles |-> round(last_segment_miles, 1),
         gallons_needed |-> round(last_gallons, 2),
         cost_usd |-> round(last_cost, 2)]

\* The loop with a plausible slip: each leg priced at the stop the vehicle
\* just left, and the leg before the first stop at the plan's average.
RECURSIVE stop_segments_begin_priced(_, _, _)
stop_segments_begin_priced(stops, i, prev_miles) ==
    IF i > Len(stops) THEN <<>>
    ELSE LET price == IF i = 1 THEN mean(PricesOf(stops))
                      ELSE stops[i - 1].retail_price_per_gallon
         IN  <<segment([stops[i] EXCEPT !.retail_price_per_gallon = price],
                       prev_miles)>>
             \o stop_segments_begin_priced(stops, i + 1, stops[i].miles_from_start)

\* The loop with a plausible slip: prev_miles is never advanced.
RECURSIVE stop_segments_prev_kept(_, _, _)
stop_segments_prev_kept(stops, i, prev_miles) ==
    IF i > Len(stops) THEN <<>>
    ELSE <<segment(stops[i], prev_miles)>>
         \o stop_segments_prev_kept(stops, i + 1, prev_miles)

\* The loop over fuel_stops from index i on, with prev_miles as left by the
\* passes before it.
RECURSIVE stop_segments(_, _, _)
stop_segments(stops, i, prev_miles) ==
    IF i > Len(stops) THEN <<>>
    ELSE <<segment(stops[i], prev_miles)>>
         \o stop_segments(stops, i + 1, stops[i].miles_from_start)

\* A plausible slip: the segment to the destination is left out.
build_segments_no_tail(stops, total) == stop_segments(stops, 1, I(0))

build_segments(stops, total) ==
    IF stops # <<>>
    THEN stop_segments(stops, 1, I(0))
         \o <<last_segment(stops, stops[Len(stops)].miles_from_start, total)>>
    ELSE <<>>

\* Lines 239-289: the dictionary optimize_fuel_stops returns.
summary(stops, total, df_geo) ==
    LET total_gallons == QDiv(total, I(MPG))
        avg_price     == average_price(stops, df_geo)
        total_cost    == QMul(total_gallons, avg_price)
    IN  [fuel_stops |-> stops,
         total_gallons |-> round(total_gallons, 2),
         total_distance_miles |-> round(total, 1),
         avg_price_per_gallon |-> round(avg_price, 3),
         total_fuel_cost_usd |-> round(total_cost, 2),
         segments |-> build_segments(stops, total),
         vehicle_range_miles |-> MAX_RANGE_MILES,
         mpg |-> MPG]

---------------------------------------------------------------------------
(* A call optimize_fuel_stops(route_coords, total_distance_miles, fuel_df) *)
(* as the view makes it, one action per step of the function.              *)

\* Distances the router may report (miles): none, a short hop, both sides
\* of MAX_RANGE_MILES and of the multiples of REFUEL_INTERVAL_MILES, with
\* and without digits beyond the first decimal.
Distances ==
    { I(-100), I(0), Q(401, 4), I(450), I(500), Q(12501, 25), I(800),
      Q(20001, 25), I(1000), Q(30006, 25), I(1250) }

\* Polylines heading north from arc mile 2000: none, a single point, one
\* long segment, one with zero-length segments, one shorter than any
\* refuel interval.
Routes ==
    { <<>>,
      <<P(2000)>>,
      <<P(2000), P(3300)>>,
      <<P(2000), P(2000), P(2600), P(2600), P(3300)>>,
      <<P(2000), P(2300)>> }

NoResult == [returned |-> FALSE]

SamplerIdle == target_miles = I(0) /\ point = <<>>

LocatorIdle ==
    /\ query_lat = I(0)
    /\ query_radius = I(0)
    /\ query_top_n = 0
    /\ query_result = <<>>

CatalogIdle == frames = <<>> /\ catalog_ref = 0 /\ calls = <<>>

NoResponse == [status |-> 0]

ViewIdle ==
    /\ api_key = <<>>
    /\ cache = <<>>
    /\ request = <<>>
    /\ response = NoResponse

ThinningIdle == max_points = 0 /\ sampled = <<>>

PlannerIdle ==
    /\ waypoints_to_check = <<>>
    /\ next_wp = 1
    /\ fuel_stops = <<>>
    /\ lookups = <<>>
    /\ result = NoResult

Init ==
    /\ pc = "start"
    /\ route_coords \in Routes
    /\ total_distance_miles \in Distances
    /\ fuel_df \in Catalogs
    /\ geocoded \in {GeocodedFile, NoGeocodedFile}
    /\ fuel_df_geo = <<>>
    /\ PlannerIdle
    /\ SamplerIdle
    /\ LocatorIdle

    /\ CatalogIdle
    /\ ViewIdle
    /\ ThinningIdle
\* Lines 170-189: the catalog gets its coordinates, the waypoints are chosen.
Begin ==
    /\ pc = "start"
    /\ fuel_df_geo' = get_fuel_df_with_coords(fuel_df, geocoded)
    /\ waypoints_to_check' = select_waypoints(total_distance_miles)
    /\ next_wp' = 1
    /\ pc' = "loop"
    /\ UNCHANGED <<route_coords, total_distance_miles, fuel_df, geocoded,
                   fuel_stops, lookups, result, target_miles, point,
                   query_lat, query_radius, query_top_n, query_result,
                   catalog_vars, view_vars, thinning_vars>>

\* Lines 191-237: one pass of `for waypoint_miles in waypoints_to_check`.
CheckWaypoint ==
    /\ pc = "loop"
    /\ next_wp <= Len(waypoints_to_check)
    /\ LET waypoint_miles == waypoints_to_check[next_wp]
           pt             == get_point_at_distance(route_coords, waypoint_miles)
       IN  /\ pt # IndexError
           /\ LET found == search_nearby(pt, fuel_df_geo)
              IN  /\ fuel_stops' =
                        IF found.nearby # <<>>
                        THEN Append(fuel_stops, fuel_stop(found.nearby, waypoint_miles))
                        ELSE fuel_stops
                  /\ lookups' = Append(lookups,
                        [waypoint_miles |-> waypoint_miles, point |-> pt,
                         radii |-> found.radii, nearby |-> found.nearby])
    /\ next_wp' = next_wp + 1
    /\ UNCHANGED <<pc, route_coords, total_distance_miles, fuel_df, geocoded,
                   fuel_df_geo, waypoints_to_check, result, target_miles,
                   point, query_lat, query_radius, query_top_n, query_result,
                   catalog_vars, view_vars, thinning_vars>>

\* Line 193 with an empty polyline: coords[-1] raises IndexError, which
\* leaves optimize_fuel_stops without a return value.
RaiseIndexError ==
    /\ pc = "loop"
    /\ next_wp <= Len(waypoints_to_check)
    /\ get_point_at_distance(route_coords, waypoints_to_check[next_wp]) = IndexError
    /\ pc' = "raised"
    /\ UNCHANGED <<route_coords, total_distance_miles, fuel_df, geocoded,
                   fuel_df_geo, waypoints_to_check, next_wp, fuel_stops,
                   lookups, result, target_miles, point, query_lat,
                   query_radius, query_top_n, query_result,
                   catalog_vars, view_vars, thinning_vars>>

\* Lines 239-289: totals, segments and the return.
Aggregate ==
    /\ pc = "loop"
    /\ next_wp > Len(waypoints_to_check)
    /\ result' = summary(fuel_stops, total_distance_miles, fuel_df_geo)
    /\ pc' = "done"
    /\ UNCHANGED <<route_coords, total_distance_miles, fuel_df, geocoded,
                   fuel_df_geo, waypoints_to_check, next_wp, fuel_stops,
                   lookups, target_miles, point, query_lat, query_radius,
                   query_top_n, query_result,
                   catalog_vars, view_vars, thinning_vars>>

Next == Begin \/ CheckWaypoint \/ RaiseIndexError \/ Aggregate

Spec == Init /\ [][Next]_vars

---------------------------------------------------------------------------
(* A call get_point_at_distance(coords, target_miles) on its own.          *)

MaxRoutePoints == 3

RoutePoints == {P(2000), P(2300), P(3300)}

SamplerRoutes ==
    UNION { [1..n -> RoutePoints] : n \in 0..MaxRoutePoints }

\* The polyline's total length: the sum of its segments' distances.
RECURSIVE route_length(_)
route_length(coords) ==
    IF Len(coords) <= 1 THEN I(0)
    ELSE QAdd(haversine_miles(coords[1][1], coords[1][2], coords[2][1], coords[2][2]),
              route_length(Tail(coords)))

InitSampler ==
    /\ pc = "sample"
    /\ route_coords \in SamplerRoutes
    /\ target_miles \in {I(0), Q(401, 8), I(400), route_length(route_coords),
                         QAdd(route_length(route_coords), I(1)),
                         QAdd(route_length(route_coords), I(400))}
    /\ point = <<>>
    /\ total_distance_miles = I(0)
    /\ fuel_df = <<>>
    /\ geocoded = NoGeocodedFile
    /\ fuel_df_geo = <<>>
    /\ PlannerIdle
    /\ LocatorIdle

    /\ CatalogIdle
    /\ ViewIdle
    /\ ThinningIdle
Sample ==
    /\ pc = "sample"
    /\ point' = get_point_at_distance(route_coords, target_miles)
    /\ pc' = "sampled"
    /\ UNCHANGED <<route_coords, total_distance_miles, fuel_df, geocoded,
                   fuel_df_geo, waypoints_to_check, next_wp, fuel_stops,
                   lookups, result, target_miles, query_lat, query_radius,
                   query_top_n, query_result,
                   catalog_vars, view_vars, thinning_vars>>

NextSampler == Sample

SpecSampler == InitSampler /\ [][NextSampler]_vars

---------------------------------------------------------------------------
(* A call find_nearest_cheap_stops(point_lat, point_lon, fuel_df,          *)
(* radius_miles, top_n) on its own, on a frame in any row order.           *)

MaxQueryRows == 3

MaxTopN == 3

QueryFrames ==
    UNION { {df \in [1..n -> Rows] :
                \A i, j \in 1..n : i # j => df[i] # df[j]} : n \in 0..MaxQueryRows }

InitLocator ==
    /\ pc = "locate"
    /\ fuel_df \in QueryFrames
    /\ geocoded \in {GeocodedFile, NoGeocodedFile}
    /\ fuel_df_geo = get_fuel_df_with_coords(fuel_df, geocoded)
    /\ query_lat \in {I(2225), I(2400), I(2800)}
    /\ query_radius \in {I(0), I(50), I(75), I(150)}
    /\ query_top_n \in 0..MaxTopN
    /\ query_result = <<>>
    /\ route_coords = <<>>
    /\ total_distance_miles = I(0)
    /\ PlannerIdle
    /\ SamplerIdle
    /\ CatalogIdle
    /\ ViewIdle
    /\ ThinningIdle

Locate ==
    /\ pc = "locate"
    /\ query_result' = find_nearest_cheap_stops(query_lat, I(0), fuel_df_geo,
                                                query_radius, query_top_n)
    /\ pc' = "located"
    /\ UNCHANGED <<route_coords, total_distance_miles, fuel_df, geocoded,
                   fuel_df_geo, waypoints_to_check, next_wp, fuel_stops,
                   lookups, result, target_miles, point, query_lat,
                   query_radius, query_top_n,
                   catalog_vars, view_vars, thinning_vars>>

NextLocator == Locate

SpecLocator == InitLocator /\ [][NextLocator]_vars

---------------------------------------------------------------------------
(* Properties.                                                             *)

\* Distance between two arc positions, written out without haversine_miles.
Apart(a, b) == IF QLeq(a, b) THEN QSub(b, a) ELSE QSub(a, b)

InRange(df_geo, lat, radius) ==
    {i \in 1..Len(df_geo) : QLeq(Apart(df_geo[i].lat, lat), radius)}

\* Row a ranks no later than row b: cheaper, or as cheap and no farther.
RanksBefore(a, b) ==
    \/ QLess(a.Retail_Price, b.Retail_Price)
    \/ /\ a.Retail_Price = b.Retail_Price
       /\ QLeq(a.distance_from_point, b.distance_from_point)

\* `res` is the first `n` of the rows of df_geo within `radius` of `lat`,
\* ranked by price and then distance.
IsCheapestWithin(res, df_geo, lat, radius, n) ==
    LET within == InRange(df_geo, lat, radius)
    IN  /\ Len(res) = Min(n, Cardinality(within))
        /\ \A k \in 1..Len(res) :
              /\ QLeq(res[k].distance_from_point, radius)
              /\ \E i \in within :
                    /\ res[k].OPIS_Truckstop_ID = df_geo[i].OPIS_Truckstop_ID
                    /\ res[k].Retail_Price = df_geo[i].Retail_Price
                    /\ res[k].lat = df_geo[i].lat
                    /\ res[k].distance_from_point = Apart(df_geo[i].lat, lat)
        /\ \A k, l \in 1..Len(res) :
              k < l => /\ RanksBefore(res[k], res[l])
                       /\ res[k].OPIS_Truckstop_ID # res[l].OPIS_Truckstop_ID
        /\ \A i \in within :
              (\A k \in 1..Len(res) :
                  res[k].OPIS_Truckstop_ID # df_geo[i].OPIS_Truckstop_ID)
              => \A k \in 1..Len(res) :
                    RanksBefore(res[k],
                        [Retail_Price |-> df_geo[i].Retail_Price,
                         distance_from_point |-> Apart(df_geo[i].lat, lat)])

\* C2: find_nearest_cheap_stops returns the first top_n of the stations
\* within the radius, by ascending price and then ascending distance; none
\* returned is farther than the radius, and nothing is returned when no
\* station is within it.
C2_CheapestWithinRadius ==
    pc = "located" =>
        /\ IsCheapestWithin(query_result, fuel_df_geo, query_lat,
                            query_radius, query_top_n)
        /\ InRange(fuel_df_geo, query_lat, query_radius) = {}
              => query_result = <<>>

\* C2 witness: radius 50, a $3.00 station 40 miles off returned ahead of a
\* $3.50 station 10 miles off.
C2_Witness ==
    /\ pc = "located"
    /\ query_radius = I(50)
    /\ Len(query_result) >= 2
    /\ query_result[1].Retail_Price = I(3)
    /\ query_result[1].distance_from_point = I(40)
    /\ query_result[2].Retail_Price = Q(35, 10)
    /\ query_result[2].distance_from_point = I(10)

\* Number of the first i waypoints that yielded candidates.
Recorded(i) == Cardinality({j \in 1..i : lookups[j].nearby # <<>>})

\* C3: each waypoint is queried at radius 75 with top_n 3, and at radius
\* 150 only when that is empty; a stop is recorded iff some station is
\* within 150 miles of the waypoint's point; the stop is the top candidate
\* of the first non-empty query and its alternatives are the (at most 2)
\* others in rank order; an empty waypoint is skipped and the loop goes on.
C3_RadiusWidening ==
    /\ Len(fuel_stops) = Recorded(Len(lookups))
    /\ pc = "done" /\ route_coords # <<>>
          => Len(lookups) = Len(waypoints_to_check)
    /\ \A i \in 1..Len(lookups) :
          LET L     == lookups[i]
              lat   == L.point[1]
              tier1 == InRange(fuel_df_geo, lat, I(75))
              tier2 == InRange(fuel_df_geo, lat, I(150))
          IN  /\ L.waypoint_miles = waypoints_to_check[i]
              /\ L.radii = IF tier1 = {} THEN <<75, 150>> ELSE <<75>>
              /\ IsCheapestWithin(L.nearby, fuel_df_geo, lat,
                                  IF tier1 = {} THEN I(150) ELSE I(75), 3)
              /\ (L.nearby # <<>>) <=> (tier2 # {})
              /\ L.nearby # <<>> =>
                    LET stop == fuel_stops[Recorded(i)]
                    IN  /\ stop.opis_id = L.nearby[1].OPIS_Truckstop_ID
                        /\ stop.lat = L.nearby[1].lat
                        /\ Len(stop.alternatives) = Len(L.nearby) - 1
                        /\ Len(stop.alternatives) <= 2
                        /\ \A m \in 1..Len(stop.alternatives) :
                              /\ stop.alternatives[m].city = L.nearby[m + 1].City
                              /\ stop.alternatives[m].lat = L.nearby[m + 1].lat
                              /\ stop.alternatives[m].price =
                                    round(L.nearby[m + 1].Retail_Price, 3)

\* C3 witness: the first waypoint found nothing in either tier, the second
\* was still processed and recorded a stop with two alternatives.
C3_Witness ==
    /\ pc = "done"
    /\ Len(lookups) = 2
    /\ lookups[1].radii = <<75, 150>>
    /\ lookups[1].nearby = <<>>
    /\ Len(fuel_stops) = 1
    /\ Len(fuel_stops[1].alternatives) = 2

\* The caller's contract (spec section 7): a polyline, a positive distance
\* and a catalog with stations.
ValidInput ==
    /\ route_coords # <<>>
    /\ QLess(I(0), total_distance_miles)
    /\ fuel_df # <<>>

\* Miles the code costs segment k for: the span between its boundaries,
\* and for the trailing segment the unrounded remainder of the route.
CostedMiles(k) ==
    IF k <= Len(fuel_stops)
    THEN QSub(result.segments[k].to_miles, result.segments[k].from_miles)
    ELSE QSub(total_distance_miles, result.segments[k].from_miles)

RECURSIVE SumOfLengths(_)
SumOfLengths(segs) ==
    IF segs = <<>> THEN I(0)
    ELSE QAdd(segs[1].segment_miles, SumOfLengths(Tail(segs)))

\* C4 as stated: for every stop list, the empty one included, the segments
\* partition [0, totalDistanceMiles]: the first starts at 0, each starts
\* where the one before ends, the last ends at totalDistanceMiles, and the
\* lengths sum to totalDistanceMiles.
C4_AlwaysPartitions ==
    pc = "done" /\ ValidInput =>
        LET segs == result.segments
        IN  /\ segs # <<>>
            /\ segs[1].from_miles = I(0)
            /\ \A k \in 1..(Len(segs) - 1) : segs[k + 1].from_miles = segs[k].to_miles
            /\ segs[Len(segs)].to_miles = total_distance_miles
            /\ SumOfLengths(segs) = total_distance_miles

\* C4 amended: with no stop the segment list is empty; with n >= 1 stops
\* there are n + 1 segments, the first starts at 0, each starts where the
\* one before ends, segment i ends at stop i's miles_from_start, and the
\* last ends at the total distance rounded to one decimal (the result's
\* total_distance_miles).
C4_SegmentsChain ==
    pc = "done" =>
        LET segs == result.segments
            n    == Len(result.fuel_stops)
        IN  IF n = 0 THEN segs = <<>>
            ELSE /\ Len(segs) = n + 1
                 /\ segs[1].from_miles = I(0)
                 /\ \A k \in 1..n :
                       /\ segs[k].to_miles = result.fuel_stops[k].miles_from_start
                       /\ segs[k + 1].from_miles = segs[k].to_miles
                 /\ segs[n + 1].to_miles = round(total_distance_miles, 1)
                 /\ segs[n + 1].to_miles = result.total_distance_miles

\* C4 witness: two stops on a route whose length has digits beyond the
\* first decimal.
C4_Witness ==
    /\ pc = "done"
    /\ Len(fuel_stops) = 2
    /\ Len(result.segments) = 3
    /\ total_distance_miles # round(total_distance_miles, 1)

C6_SegmentsWalk ==
    pc = "done" =>
        LET segs == result.segments
            n    == Len(fuel_stops)
            prev(i) == IF i = 1 THEN I(0) ELSE fuel_stops[i - 1].miles_from_start
        IN  /\ n >= 1 => Len(segs) = n + 1
            /\ \A i \in 1..n :
                  LET length == QSub(fuel_stops[i].miles_from_start, prev(i))
                  IN  /\ segs[i].from_miles = prev(i)
                      /\ segs[i].to_miles = fuel_stops[i].miles_from_start
                      /\ segs[i].segment_miles = round(length, 1)
                      /\ segs[i].gallons_needed = round(QDiv(length, I(10)), 2)
                      /\ segs[i].cost_usd =
                            round(QMul(QDiv(length, I(10)),
                                       fuel_stops[i].retail_price_per_gallon), 2)
            /\ n >= 1 =>
                  LET length == QSub(total_distance_miles,
                                     fuel_stops[n].miles_from_start)
                  IN  /\ segs[n + 1].from_miles = fuel_stops[n].miles_from_start
                      /\ segs[n + 1].segment_miles = round(length, 1)
                      /\ segs[n + 1].gallons_needed = round(QDiv(length, I(10)), 2)
                      /\ segs[n + 1].cost_usd =
                            round(QMul(QDiv(length, I(10)),
                                       fuel_stops[n].retail_price_per_gallon), 2)

\* C6 witness: three stops, four segments.
C6_Witness ==
    /\ pc = "done"
    /\ Len(fuel_stops) = 3
    /\ Len(result.segments) = 4

\* C7 as stated: the call fails, returning nothing, exactly on an empty
\* polyline, a non-positive total distance or an empty catalog.
C7_FailsExactlyOnInvalidInput ==
    pc \in {"done", "raised"} =>
        ((pc = "raised") <=> ~ValidInput)

\* Prices the average is taken over: the stops', or the whole catalog's
\* when there is no stop.
AveragedPrices ==
    IF fuel_stops # <<>>
    THEN [i \in 1..Len(fuel_stops) |-> fuel_stops[i].retail_price_per_gallon]
    ELSE [i \in 1..Len(fuel_df) |-> fuel_df[i].Retail_Price]

\* C8: total_gallons is the distance / 10 and the total cost is that times
\* the average price: the mean of the chosen stops' prices, or the mean
\* price of the whole catalog when no stop was recorded, in which case the
\* result has an empty stop list and an empty segment list.
C8_Totals ==
    pc = "done" =>
        LET gallons == QDiv(total_distance_miles, I(10))
            average == QDiv(QSum(AveragedPrices), I(Len(AveragedPrices)))
        IN  /\ result.total_gallons = round(gallons, 2)
            /\ result.avg_price_per_gallon = round(average, 3)
            /\ result.total_fuel_cost_usd = round(QMul(gallons, average), 2)
            /\ result.fuel_stops = fuel_stops
            /\ (\A i \in 1..Len(lookups) : lookups[i].nearby = <<>>)
                  => result.fuel_stops = <<>> /\ result.segments = <<>>

\* C8 witness: a valid call whose waypoints all found nothing, costed at
\* the catalog's mean price.
C8_Witness ==
    /\ pc = "done"
    /\ ValidInput
    /\ Len(lookups) >= 2
    /\ fuel_stops = <<>>
    /\ Len(fuel_df) >= 2
    /\ ~IsNaN(result.total_fuel_cost_usd)

\* C9: the stops are strictly increasing in miles_from_start, there is at
\* most one per waypoint, and each carries the distance (to one decimal) of
\* the waypoint it was resolved for.
C9_StopsIncreasing ==
    /\ \A i, j \in 1..Len(fuel_stops) :
          i < j => QLess(fuel_stops[i].miles_from_start,
                         fuel_stops[j].miles_from_start)
    /\ Len(fuel_stops) <= Len(lookups)
    /\ Len(lookups) <= Len(waypoints_to_check)
    /\ \A i \in 1..Len(lookups) :
          lookups[i].nearby # <<>> =>
              fuel_stops[Recorded(i)].miles_from_start =
                  round(waypoints_to_check[i], 1)
    /\ pc = "done" => result.fuel_stops = fuel_stops

\* C9 witness: three waypoints, the middle one without a stop.
C9_Witness ==
    /\ pc = "done"
    /\ Len(lookups) = 3
    /\ lookups[2].nearby = <<>>
    /\ Len(fuel_stops) = 2

\* C10: on a non-empty polyline, target 0 gives the first coordinate, the
\* polyline's total length gives the last, and so does any larger target.
C10_EndPoints ==
    pc = "sampled" /\ route_coords # <<>> =>
        LET total == route_length(route_coords)
            last  == route_coords[Len(route_coords)]
        IN  /\ target_miles = I(0) => point = route_coords[1]
            /\ target_miles = total => point = last
            /\ QLess(total, target_miles) => point = last

\* C10 witness: a three-point polyline with a zero-length segment, sampled
\* beyond its end, where the last point is not the first.
C10_Witness ==
    /\ pc = "sampled"
    /\ Len(route_coords) = 3
    /\ route_coords[1] = route_coords[2]
    /\ route_coords[3] # route_coords[1]
    /\ QLess(route_length(route_coords), target_miles)
    /\ point = route_coords[3]

---------------------------------------------------------------------------
(* optimizer.py: get_point_at_distance, where on the polyline it stops.    *)

\* The position with a plausible slip: the fall-through goes back to the
\* start of the route.
RECURSIVE walk_position_first(_, _, _, _)
walk_position_first(coords, target, i, accumulated) ==
    IF i > Len(coords)
    THEN [segment |-> 2, fraction |-> I(0), walked |-> I(0)]
    ELSE LET segment_dist == haversine_miles(coords[i - 1][1], coords[i - 1][2],
                                             coords[i][1], coords[i][2])
         IN  IF QLeq(target, QAdd(accumulated, segment_dist))
             THEN LET remaining == QSub(target, accumulated)
                      fraction  == IF QLess(I(0), segment_dist)
                                   THEN QDiv(remaining, segment_dist)
                                   ELSE I(0)
                  IN  [segment |-> i, fraction |-> fraction,
                       walked |-> QAdd(accumulated, QMul(fraction, segment_dist))]
             ELSE walk_position_first(coords, target, i + 1,
                                      QAdd(accumulated, segment_dist))

\* The same loop as `walk`, giving the place of the returned point instead
\* of its coordinates: the segment (by the index of its end point) the loop
\* returns in, the fraction it interpolates at, and the miles walked to
\* there.  The fall-through (coords[-1]) is past the last segment, with
\* every segment walked.
RECURSIVE walk_position(_, _, _, _)
walk_position(coords, target, i, accumulated) ==
    IF i > Len(coords)
    THEN [segment |-> Len(coords) + 1, fraction |-> I(0), walked |-> accumulated]
    ELSE LET segment_dist == haversine_miles(coords[i - 1][1], coords[i - 1][2],
                                             coords[i][1], coords[i][2])
         IN  IF QLeq(target, QAdd(accumulated, segment_dist))
             THEN LET remaining == QSub(target, accumulated)
                      fraction  == IF QLess(I(0), segment_dist)
                                   THEN QDiv(remaining, segment_dist)
                                   ELSE I(0)
                  IN  [segment |-> i, fraction |-> fraction,
                       walked |-> QAdd(accumulated, QMul(fraction, segment_dist))]
             ELSE walk_position(coords, target, i + 1,
                                QAdd(accumulated, segment_dist))

\* The coordinate at a position of the polyline.
PointAt(coords, pos) ==
    IF pos.segment > Len(coords) THEN coords[Len(coords)]
    ELSE LET a == coords[pos.segment - 1]
             b == coords[pos.segment]
         IN  <<QAdd(a[1], QMul(pos.fraction, QSub(b[1], a[1]))),
               QAdd(a[2], QMul(pos.fraction, QSub(b[2], a[2])))>>

\* Targets tried against a polyline.
SamplerTargets(coords) ==
    {I(0), Q(401, 8), I(400), route_length(coords),
     QAdd(route_length(coords), I(1)), QAdd(route_length(coords), I(400))}

\* Position a is no later on the polyline than position b.
NoLater(a, b) ==
    \/ a.segment < b.segment
    \/ a.segment = b.segment /\ QLeq(a.fraction, b.fraction)

\* C11: get_point_at_distance is monotonic in its target: for a non-empty
\* polyline and 0 <= t1 <= t2 the miles walked to the point returned for t2
\* are not less than those walked to the point returned for t1, which lies
\* on an earlier segment or on the same one at no greater a fraction.
C11_Monotonic ==
    pc = "sampled" /\ route_coords # <<>> /\ QLeq(I(0), target_miles) =>
        LET p2 == walk_position(route_coords, target_miles, 2, I(0))
        IN  /\ point = PointAt(route_coords, p2)
            /\ \A t1 \in SamplerTargets(route_coords) :
                  QLeq(t1, target_miles) =>
                      LET p1 == walk_position(route_coords, t1, 2, I(0))
                      IN  /\ QLeq(p1.walked, p2.walked)
                          /\ NoLater(p1, p2)

\* C11 witness: a three-point polyline sampled beyond its end, after
\* targets inside its first and second segments.
C11_Witness ==
    /\ pc = "sampled"
    /\ route_coords = <<P(2000), P(2300), P(3300)>>
    /\ target_miles = I(1301)
    /\ point = P(3300)
    /\ walk_position(route_coords, Q(401, 8), 2, I(0)).segment = 2
    /\ walk_position(route_coords, I(400), 2, I(0)).segment = 3
    /\ walk_position(route_coords, I(400), 2, I(0)).walked = I(400)

---------------------------------------------------------------------------
(* Planning calls sharing the catalog that load_fuel_data caches.          *)
(* DataFrames are objects on a heap (`frames`); a name holds an object id. *)

NumCalls == 2

\* DataFrame.copy() with a plausible slip: no copy, the same object.
df_alias(heap, ref) == [heap |-> heap, ref |-> ref]

\* DataFrame.copy() (deep by default): a new object with the same content.
df_copy(heap, ref) == [heap |-> Append(heap, heap[ref]), ref |-> Len(heap) + 1]

\* df[name] = values, for the columns named in `columns`: set in place in
\* the object, for whoever holds it.
set_columns(heap, ref, columns) ==
    [heap EXCEPT ![ref] = [i \in 1..Len(heap[ref]) |-> columns[i] @@ heap[ref][i]]]

\* Objects no name refers to any more are gone: the heap keeps its first
\* `n` objects.
release(heap, n) == SubSeq(heap, 1, n)

\* get_fuel_df_with_coords on objects: the coordinates are read from the
\* argument, and written to `out`, a copy of it.
get_fuel_df_with_coords_obj(heap, ref, geo) ==
    LET located == get_fuel_df_with_coords(heap[ref], geo)
        out     == df_copy(heap, ref)
    IN  [heap |-> set_columns(out.heap, out.ref,
                      [i \in 1..Len(located) |->
                          [lat |-> located[i].lat, lon |-> located[i].lon]]),
         ref  |-> out.ref]

\* find_nearest_cheap_stops on objects: the distances are computed from
\* the argument, line 80 rebinds fuel_df to a copy, line 81 writes the
\* distance column to that copy.
find_nearest_cheap_stops_obj(heap, ref, lat, lon, radius, n) ==
    LET df        == heap[ref]
        distances == [i \in 1..Len(df) |->
                         [distance_from_point |->
                             haversine_miles(lat, lon, df[i].lat, df[i].lon)]]
        copied    == df_copy(heap, ref)
        written   == set_columns(copied.heap, copied.ref, distances)
        nearby    == SelectSeq(written[copied.ref],
                               LAMBDA row : WithinRadius(row, radius))
    IN  [heap  |-> written,
         stops |-> IF nearby = <<>> THEN <<>> ELSE head(sort_values(nearby), n)]

\* Lines 196-212 on objects.
search_nearby_obj(heap, ref, pt) ==
    LET first == find_nearest_cheap_stops_obj(heap, ref, pt[1], pt[2], I(75), 3)
    IN  IF first.stops = <<>>
        THEN LET second == find_nearest_cheap_stops_obj(first.heap, ref,
                                                        pt[1], pt[2], I(150), 3)
             IN  [heap |-> second.heap, nearby |-> second.stops]
        ELSE [heap |-> first.heap, nearby |-> first.stops]

\* The for loop of lines 191-237 run to its end on a frame of its own.
RECURSIVE collect_stops(_, _, _, _, _)
collect_stops(coords, waypoints, k, df_geo, stops) ==
    IF k > Len(waypoints) THEN [raised |-> FALSE, stops |-> stops]
    ELSE LET pt == get_point_at_distance(coords, waypoints[k])
         IN  IF pt = IndexError THEN [raised |-> TRUE, stops |-> stops]
             ELSE LET found == search_nearby(pt, df_geo)
                  IN  collect_stops(coords, waypoints, k + 1, df_geo,
                          IF found.nearby # <<>>
                          THEN Append(stops, fuel_stop(found.nearby, waypoints[k]))
                          ELSE stops)

\* optimize_fuel_stops as a function of its arguments and the geocoded
\* file: what a call alone on a catalog returns (NoResult: it raised).
optimize_fuel_stops(coords, total, df, geo) ==
    LET df_geo == get_fuel_df_with_coords(df, geo)
        run    == collect_stops(coords, select_waypoints(total), 1, df_geo, <<>>)
    IN  IF run.raised THEN NoResult ELSE summary(run.stops, total, df_geo)

\* Catalogs load_fuel_data may have read: no rows, four stations on the
\* route, two stations of which one has no coordinates on file.
SharedCatalogs ==
    { <<>>,
      <<Row(5, "E", "TX", Q(29, 10)), Row(4, "D", "TX", I(3)),
        Row(2, "B", "KS", Q(31, 10)), Row(1, "A", "TX", Q(32504, 10000))>>,
      <<Row(7, "F", "ZZ", Q(29996, 10000)), Row(3, "C", "TX", Q(35, 10))>> }

CallRoutes == { <<>>, <<P(2000), P(2000), P(2600), P(2600), P(3300)>> }

CallDistances == { I(450), I(1250) }

\* A request thread about to run lines 110-117 of views.py.
new_call(coords, total) ==
    [pc |-> "load", route_coords |-> coords, total_distance_miles |-> total,
     fuel_df |-> 0, fuel_df_geo |-> 0, waypoints_to_check |-> <<>>,
     next_wp |-> 1, fuel_stops |-> <<>>, result |-> NoResult]

InitCatalog ==
    /\ pc = "serving"
    /\ fuel_df \in SharedCatalogs
    /\ geocoded = GeocodedFile
    /\ frames = <<>>
    /\ catalog_ref = 0
    /\ calls \in [1..NumCalls ->
                    {new_call(r, d) : r \in CallRoutes, d \in CallDistances}]
    /\ route_coords = <<>>
    /\ total_distance_miles = I(0)
    /\ fuel_df_geo = <<>>
    /\ PlannerIdle
    /\ SamplerIdle
    /\ LocatorIdle
    /\ ViewIdle
    /\ ThinningIdle

\* views.py line 110, fuel_service.py line 27: the first call reads the
\* file into a new object, which lru_cache keeps; every later call gets
\* that same object.
CallLoad(c) ==
    /\ calls[c].pc = "load"
    /\ IF catalog_ref = 0
       THEN /\ frames' = Append(frames, fuel_df)
            /\ catalog_ref' = Len(frames) + 1
       ELSE UNCHANGED <<frames, catalog_ref>>
    /\ calls' = [calls EXCEPT ![c].fuel_df = catalog_ref', ![c].pc = "start"]
    /\ UNCHANGED <<pc, route_coords, call_vars, view_vars, thinning_vars>>

\* optimizer.py lines 170-189 in call c.
CallBegin(c) ==
    /\ calls[c].pc = "start"
    /\ LET geo == get_fuel_df_with_coords_obj(frames, calls[c].fuel_df, geocoded)
       IN  /\ frames' = geo.heap
           /\ calls' = [calls EXCEPT
                  ![c].fuel_df_geo = geo.ref,
                  ![c].waypoints_to_check =
                      select_waypoints(calls[c].total_distance_miles),
                  ![c].next_wp = 1,
                  ![c].pc = "loop"]
    /\ UNCHANGED <<pc, route_coords, call_vars, catalog_ref, view_vars,
                   thinning_vars>>

\* optimizer.py lines 191-237 in call c: one pass of the for loop.
CallCheckWaypoint(c) ==
    /\ calls[c].pc = "loop"
    /\ calls[c].next_wp <= Len(calls[c].waypoints_to_check)
    /\ LET waypoint_miles == calls[c].waypoints_to_check[calls[c].next_wp]
           pt == get_point_at_distance(calls[c].route_coords, waypoint_miles)
       IN  /\ pt # IndexError
           /\ LET found == search_nearby_obj(frames, calls[c].fuel_df_geo, pt)
              IN  /\ frames' = release(found.heap, Len(frames))
                  /\ calls' = [calls EXCEPT
                         ![c].fuel_stops =
                             IF found.nearby # <<>>
                             THEN Append(@, fuel_stop(found.nearby, waypoint_miles))
                             ELSE @,
                         ![c].next_wp = @ + 1]
    /\ UNCHANGED <<pc, route_coords, call_vars, catalog_ref, view_vars,
                   thinning_vars>>

\* optimizer.py line 193 in call c, with an empty polyline.
CallRaiseIndexError(c) ==
    /\ calls[c].pc = "loop"
    /\ calls[c].next_wp <= Len(calls[c].waypoints_to_check)
    /\ get_point_at_distance(calls[c].route_coords,
           calls[c].waypoints_to_check[calls[c].next_wp]) = IndexError
    /\ calls' = [calls EXCEPT ![c].pc = "raised"]
    /\ UNCHANGED <<pc, route_coords, call_vars, frames, catalog_ref, view_vars,
                   thinning_vars>>

\* optimizer.py lines 239-289 in call c.
CallAggregate(c) ==
    /\ calls[c].pc = "loop"
    /\ calls[c].next_wp > Len(calls[c].waypoints_to_check)
    /\ calls' = [calls EXCEPT
           ![c].result = summary(calls[c].fuel_stops,
                                 calls[c].total_distance_miles,
                                 frames[calls[c].fuel_df_geo]),
           ![c].pc = "done"]
    /\ UNCHANGED <<pc, route_coords, call_vars, frames, catalog_ref, view_vars,
                   thinning_vars>>

NextCatalog ==
    \E c \in 1..NumCalls :
        \/ CallLoad(c)
        \/ CallBegin(c)
        \/ CallCheckWaypoint(c)
        \/ CallRaiseIndexError(c)
        \/ CallAggregate(c)

SpecCatalog == InitCatalog /\ [][NextCatalog]_vars

\* C12: planning calls leave the catalog load_fuel_data caches as it was
\* read (same rows, columns and prices) however they interleave: the
\* lat/lon columns are on each call's own copy, the distance column only
\* on copies that find_nearest_cheap_stops drops, and each call returns
\* (or raises) what it would alone on a fresh catalog.
C12_CatalogUnchanged ==
    /\ catalog_ref # 0 => frames[catalog_ref] = fuel_df
    /\ \A c \in DOMAIN calls :
          LET fresh == optimize_fuel_stops(calls[c].route_coords,
                           calls[c].total_distance_miles, fuel_df, geocoded)
          IN  /\ calls[c].fuel_df_geo # 0 =>
                    frames[calls[c].fuel_df_geo] =
                        get_fuel_df_with_coords(fuel_df, geocoded)
              /\ calls[c].pc = "done" => calls[c].result = fresh
              /\ calls[c].pc = "raised" => fresh = NoResult

\* C12 witness: on a catalog of four stations, call 1 has returned three
\* stops while call 2, which took its copy of the shared catalog first, is
\* still in its loop.
C12_Witness ==
    /\ calls # <<>>
    /\ Len(fuel_df) = 4
    /\ calls[1].pc = "done"
    /\ Len(calls[1].result.fuel_stops) = 3
    /\ calls[2].pc = "loop"
    /\ calls[2].next_wp = 2
    /\ calls[1].fuel_df = catalog_ref
    /\ calls[2].fuel_df = catalog_ref
    /\ 0 < calls[2].fuel_df_geo
    /\ calls[2].fuel_df_geo < calls[1].fuel_df_geo

---------------------------------------------------------------------------
(* views.py: RouteOptimizerView.post and the full-response cache.  A       *)
(* string is the sequence of its characters.                               *)

RECURSIVE lstrip(_)
lstrip(s) == IF s # <<>> /\ Head(s) = " " THEN lstrip(Tail(s)) ELSE s

RECURSIVE rstrip(_)
rstrip(s) ==
    IF s # <<>> /\ s[Len(s)] = " " THEN rstrip(SubSeq(s, 1, Len(s) - 1)) ELSE s

\* str.strip().
strip(s) == rstrip(lstrip(s))

\* hashlib.md5(value).hexdigest(), taken to be free of collisions: equal
\* digests exactly for equal strings.
md5(value) == [hexdigest_of |-> value]

\* optimizer.py line 26.
make_cache_key(prefix, value) == <<prefix, md5(value)>>

\* f"{start}|{end}".
start_end(start, end) == start \o <<"|">> \o end

\* cache.set(key, value, timeout).
cache_set(store, key, value) ==
    [k \in DOMAIN store \cup {key} |-> IF k = key THEN value ELSE store[k]]

\* The entry timed out.
cache_delete(store, key) == [k \in DOMAIN store \ {key} |-> store[k]]

\* Lines 126-160: the body of a 200, of which the locations it echoes are
\* kept (the rest is what the router and the planner returned).
response_data(start, end) ==
    [route |-> [start |-> [location |-> start], end |-> [location |-> end]]]

error_response(code, message) ==
    [status |-> code, body |-> [error |-> message], cached |-> FALSE]

\* What geocoding, routing and planning do for one request.
Outcomes ==
    {"geocode_not_found", "geocode_failed", "routing_failed",
     "optimization_failed", "ok"}

\* The handler, lines 53-165: the response it returns and the cache it
\* leaves, for the request's fields, the configured key, the cache it
\* finds and what the services do.
post(start_field, end_field, key, store, outcome) ==
    LET start     == strip(start_field)
        end       == strip(end_field)
        cache_key == make_cache_key("full_route", start_end(start, end))
    IN  IF start = <<>> \/ end = <<>>
        THEN [response |-> error_response(400, "required"), cache |-> store]
        ELSE IF key = <<>> \/ strip(key) = <<>>
        THEN [response |-> error_response(503, "not configured"), cache |-> store]
        ELSE IF cache_key \in DOMAIN store
        THEN [response |-> [status |-> 200, body |-> store[cache_key],
                            cached |-> TRUE],
              cache    |-> store]
        ELSE CASE outcome = "geocode_not_found" ->
                    [response |-> error_response(400, "not found"), cache |-> store]
               [] outcome = "geocode_failed" ->
                    [response |-> error_response(503, "Geocoding failed"),
                     cache |-> store]
               [] outcome = "routing_failed" ->
                    [response |-> error_response(503, "Routing failed"),
                     cache |-> store]
               [] outcome = "optimization_failed" ->
                    [response |-> error_response(500, "Optimization failed"),
                     cache |-> store]
               [] OTHER ->
                    [response |-> [status |-> 200,
                                   body |-> response_data(start, end),
                                   cached |-> FALSE],
                     cache    |-> cache_set(store, cache_key,
                                            response_data(start, end))]

\* Values of the request's 'start' and 'end' fields: missing, padded,
\* plain, and two with a bar in them.
Locations ==
    { <<>>, <<" ", "a">>, <<"a">>, <<"a", "|", "b">>, <<"b", "|", "a">> }

InitView ==
    /\ pc = "view"
    /\ api_key \in {<<>>, <<" ">>, <<"k">>}
    /\ cache = <<>>
    /\ request = <<>>
    /\ response = NoResponse
    /\ route_coords = <<>>
    /\ total_distance_miles = I(0)
    /\ fuel_df = <<>>
    /\ geocoded = NoGeocodedFile
    /\ fuel_df_geo = <<>>
    /\ PlannerIdle
    /\ SamplerIdle
    /\ LocatorIdle
    /\ CatalogIdle
    /\ ThinningIdle

\* One POST /api/route/optimize/.
Post ==
    \E start_field \in Locations, end_field \in Locations, outcome \in Outcomes :
        LET served == post(start_field, end_field, api_key, cache, outcome)
        IN  /\ request' = [start |-> start_field, end |-> end_field]
            /\ response' = served.response
            /\ cache' = served.cache
            /\ UNCHANGED <<pc, route_coords, call_vars, catalog_vars, api_key,
                           thinning_vars>>

\* An entry reaches its 30 minutes (line 163).
Expire ==
    \E key \in DOMAIN cache :
        /\ cache' = cache_delete(cache, key)
        /\ UNCHANGED <<pc, route_coords, call_vars, catalog_vars, api_key,
                       request, response, thinning_vars>>

NextView == Post \/ Expire

SpecView == InitView /\ [][NextView]_vars

\* A POST answered with an error leaves the cache as it was, and every
\* stored value is the body of a 200.
ErrorLeavesCache ==
    [][Post /\ response'.status >= 400 => cache' = cache]_vars

OnlySuccessBodiesStored ==
    \A key \in DOMAIN cache : DOMAIN cache[key] = {"route"}

\* C13: the full-response cache is written only by a request that got its
\* 200, so a response served from the cache carries a body that a 200
\* produced for the same start and end as the request it answers.
C13_CacheHitSameRequest ==
    /\ OnlySuccessBodiesStored
    /\ response.status # 0 /\ response.cached =>
          /\ response.body.route.start.location = strip(request.start)
          /\ response.body.route.end.location = strip(request.end)

---------------------------------------------------------------------------
(* views.py: sample_coords, which thins the polyline for the 'waypoints'   *)
(* field of the response.                                                  *)

\* max_points at the call site, line 145.
WaypointLimit == 200

MaxCoords == 6

MaxSamplePoints == 4

\* [{'lat': c[0], 'lon': c[1]} for c in coords].
as_points(coords) ==
    [i \in 1..Len(coords) |-> [lat |-> coords[i][1], lon |-> coords[i][2]]]

\* coords[::step]: the elements at 0, step, 2*step, ... (1, 1 + step, ...
\* counting from 1).
slice_step(coords, step) ==
    IF coords = <<>> THEN <<>>
    ELSE [k \in 1..((Len(coords) - 1) \div step + 1) |-> coords[(k - 1) * step + 1]]

sample_coords(coords, limit) ==
    IF Len(coords) <= limit THEN as_points(coords)
    ELSE LET step == Len(coords) \div limit
         IN  as_points(slice_step(coords, step))

\* A polyline of n points, one arc mile apart.
Polyline(n) == [i \in 1..n |-> P(2000 + i)]

PolylineLengths ==
    0..MaxCoords \cup {WaypointLimit, WaypointLimit + 1, 2 * WaypointLimit - 1,
                       2 * WaypointLimit, 2 * WaypointLimit + 1}

InitThinning ==
    /\ pc = "thin"
    /\ route_coords \in {Polyline(n) : n \in PolylineLengths}
    /\ max_points \in 1..MaxSamplePoints \cup {WaypointLimit}
    /\ sampled = <<>>
    /\ total_distance_miles = I(0)
    /\ fuel_df = <<>>
    /\ geocoded = NoGeocodedFile
    /\ fuel_df_geo = <<>>
    /\ PlannerIdle
    /\ SamplerIdle
    /\ LocatorIdle
    /\ CatalogIdle
    /\ ViewIdle

SampleCoords ==
    /\ pc = "thin"
    /\ sampled' = sample_coords(route_coords, max_points)
    /\ pc' = "thinned"
    /\ UNCHANGED <<route_coords, call_vars, catalog_vars, view_vars, max_points>>

NextThinning == SampleCoords

SpecThinning == InitThinning /\ [][NextThinning]_vars

\* C14: sample_coords returns at most max_points points for every list and
\* every max_points >= 1, and the whole list in order when it has no more
\* than max_points points; so 'waypoints' never holds more than 200.
C14_AtMostMaxPoints ==
    pc = "thinned" /\ max_points >= 1 =>
        /\ Len(sampled) <= max_points
        /\ Len(route_coords) <= max_points => sampled = as_points(route_coords)

===========================================================================
